---------------------------- MODULE Spec2Model ----------------------------
(***************************************************************************)
(* A model of src/bot.py: the two score formatters (pure functions), the   *)
(* bounded-retry webhook post, build_message and main.                     *)
(*                                                                         *)
(* Scores are non-negative integers (one unit = one score point).  A       *)
(* median is kept doubled (median2 = 2 * median) so that the average of    *)
(* the two middle values of an even-length list stays an integer.          *)
(* Sleep durations are kept in tenths of a second (1.5 s = 15).            *)
(***************************************************************************)
EXTENDS Integers, Sequences, FiniteSets

VARIABLES
    team_scores,   \* SpecFmt: the formatter's argument
    fmt_fn,        \* SpecFmt: which formatter has run ("none" before)
    fmt_out,       \* SpecFmt: what it returned
    pc,            \* main: position in main / post_to_groupme
    TEST_MODE,     \* module flag (bot.py:31), fixed for the invocation
    now_et,        \* datetime.now(EASTERN) read by main: <<weekday, minute>>
    league,        \* what build_message loaded: the week and its box scores
    load_failed,   \* build_message's try block raised
    formatted,     \* the formatters were run in this invocation
    msg,           \* what build_message returned
    post_kind,     \* text of the running post_to_groupme call: "score"/"error"
    attempt,       \* post_to_groupme's local counter
    sleeps,        \* time.sleep arguments of the running call, in order
    calls          \* finished post_to_groupme calls, in order

vars == << team_scores, fmt_fn, fmt_out, pc, TEST_MODE, now_et, league, load_failed,
           formatted, msg, post_kind, attempt, sleeps, calls >>

fmtVars == << team_scores, fmt_fn, fmt_out >>
mainVars == << pc, TEST_MODE, now_et, league, load_failed, formatted, msg, post_kind,
               attempt, sleeps, calls >>

---------------------------------------------------------------------------
(* Bounds of the model *)

MaxLen == 4          \* formatter inputs: every list of up to MaxLen entries
MaxScore == 3        \* ... with scores 0..MaxScore
MaxExtra == 2        \* long inputs: non-zero entries beyond the zero count
MaxMatchups == 1     \* main: box scores per week
MaxWeek == 1         \* main: league.current_week is 0 (none) or 1..MaxWeek
MaxMinute == 3       \* main: minute of the day read by main, 0..MaxMinute

(* Program constants *)

retries == 2         \* post_to_groupme's default
backoff10 == 15      \* post_to_groupme's default backoff, 1.5 s, in tenths
ZeroHeavyMin == 6    \* "zero_count >= 6"

NoMatchups == "No matchups found."
PassGlyph == "pass"
FailGlyph == "fail"

---------------------------------------------------------------------------
(* Helpers *)

Range(s) == { s[i] : i \in DOMAIN s }

SeqsUpTo(S, n) == UNION { [1..k -> S] : k \in 0..n }

TeamNames == << "A", "B", "C" >>

\* Team names repeat (getattr(..., "team_name", "Home") gives no uniqueness).
Name(i) == TeamNames[((i - 1) % Len(TeamNames)) + 1]

Entries(s) == [ i \in 1..Len(s) |-> << Name(i), s[i] >> ]

Zeros(z) == [ i \in 1..z |-> 0 ]

Ramp(n) == [ i \in 1..n |-> i ]

\* Long inputs around the "at least 6 zeros" threshold, with the zeros in
\* the minority: 5, 6 or 7 zeros and more non-zero entries than zeros.
LongLists ==
    { Zeros(z) \o Ramp(z + e) : z \in (ZeroHeavyMin - 1)..(ZeroHeavyMin + 1),
                               e \in 1..MaxExtra }
    \cup
    { Ramp(z + e) \o Zeros(z) : z \in (ZeroHeavyMin - 1)..(ZeroHeavyMin + 1),
                               e \in 1..MaxExtra }

ScoreLists == SeqsUpTo(0..MaxScore, MaxLen) \cup LongLists

---------------------------------------------------------------------------
(* statistics.median and sorted() *)

RECURSIVE InsertAsc(_, _)
InsertAsc(x, s) ==
    IF s = << >> THEN << x >>
    ELSE IF Head(s) <= x THEN << Head(s) >> \o InsertAsc(x, Tail(s))
    ELSE << x >> \o s

RECURSIVE SortAsc(_)
SortAsc(s) ==
    IF s = << >> THEN << >>
    ELSE InsertAsc(s[Len(s)], SortAsc(SubSeq(s, 1, Len(s) - 1)))

\* A median that takes the upper middle value of an even-length list.
median2_upper(data) ==
    LET s == SortAsc(data)
        n == Len(s)
    IN  2 * s[(n \div 2) + 1]

\* statistics.median(data), doubled; data is non-empty.
median2(data) ==
    LET s == SortAsc(data)
        n == Len(s)
    IN  IF n % 2 = 1 THEN 2 * s[(n \div 2) + 1]
        ELSE s[n \div 2] + s[(n \div 2) + 1]

\* Insert e behind every entry whose score is >= its own: equal scores keep
\* their input order, as sorted(..., reverse=True) does.
RECURSIVE InsertDesc(_, _)
InsertDesc(e, s) ==
    IF s = << >> THEN << e >>
    ELSE IF Head(s)[2] >= e[2] THEN << Head(s) >> \o InsertDesc(e, Tail(s))
    ELSE << e >> \o s

RECURSIVE SortDescRec(_)
SortDescRec(ts) ==
    IF ts = << >> THEN << >>
    ELSE InsertDesc(ts[Len(ts)], SortDescRec(SubSeq(ts, 1, Len(ts) - 1)))

\* A sort that forgot reverse=True.
RECURSIVE InsertAscEntry(_, _)
InsertAscEntry(e, s) ==
    IF s = << >> THEN << e >>
    ELSE IF Head(s)[2] <= e[2] THEN << Head(s) >> \o InsertAscEntry(e, Tail(s))
    ELSE << e >> \o s

RECURSIVE sorted_asc(_)
sorted_asc(ts) ==
    IF ts = << >> THEN << >>
    ELSE InsertAscEntry(ts[Len(ts)], sorted_asc(SubSeq(ts, 1, Len(ts) - 1)))

\* sorted(team_scores, key=lambda x: x[1], reverse=True)
sorted_desc(ts) == SortDescRec(ts)

---------------------------------------------------------------------------
(* The formatters *)

scores_of(ts) == [ i \in 1..Len(ts) |-> ts[i][2] ]

zero_count(ts) == Cardinality({ i \in 1..Len(ts) : ts[i][2] = 0 })

\* A zero-heavy test that asks for a strict majority of zeros.
zero_heavy_majority(ts) ==
    zero_count(ts) >= ZeroHeavyMin \/ 2 * zero_count(ts) > Len(ts)

\* zero_count >= 6 or zero_count >= total / 2
zero_heavy(ts) ==
    zero_count(ts) >= ZeroHeavyMin \/ 2 * zero_count(ts) >= Len(ts)

Line(e, mark) == [ name |-> e[1], score |-> e[2], mark |-> mark ]

Result(m2, text, lines, exc) ==
    [ median2 |-> m2, text |-> text, lines |-> lines, exc |-> exc ]

IsPositive(s) == s > 0

\* format_current_scores whose marks use score > median.
format_current_scores_strict(ts) ==
    IF ts = << >> THEN Result(0, NoMatchups, << >>, "none")
    ELSE
    LET sorted == sorted_desc(ts)
    IN  IF zero_heavy(ts)
        THEN Result(0, "lines",
                    [ i \in 1..Len(sorted) |->
                        Line(sorted[i], IF sorted[i][2] > 0 THEN PassGlyph
                                        ELSE FailGlyph) ],
                    "none")
        ELSE
        LET non_zero == SelectSeq(scores_of(ts), IsPositive)
            usable == IF non_zero # << >> THEN non_zero ELSE scores_of(ts)
            m2 == median2(usable)
        IN  Result(m2, "lines",
                   [ i \in 1..Len(sorted) |->
                       Line(sorted[i],
                            IF 2 * sorted[i][2] > m2 /\ (m2 = 0 \/ sorted[i][2] > 0)
                            THEN PassGlyph ELSE FailGlyph) ],
                   "none")

format_current_scores(ts) ==
    IF ts = << >> THEN Result(0, NoMatchups, << >>, "none")
    ELSE
    LET sorted == sorted_desc(ts)
    IN  IF zero_heavy(ts)
        THEN Result(0, "lines",
                    [ i \in 1..Len(sorted) |->
                        Line(sorted[i], IF sorted[i][2] > 0 THEN PassGlyph
                                        ELSE FailGlyph) ],
                    "none")
        ELSE
        LET non_zero == SelectSeq(scores_of(ts), IsPositive)
            usable == IF non_zero # << >> THEN non_zero ELSE scores_of(ts)
            m2 == median2(usable)
        IN  Result(m2, "lines",
                   [ i \in 1..Len(sorted) |->
                       Line(sorted[i],
                            IF 2 * sorted[i][2] >= m2 /\ (m2 = 0 \/ sorted[i][2] > 0)
                            THEN PassGlyph ELSE FailGlyph) ],
                   "none")

\* format_projected_scores without its "if not team_scores" guard:
\* statistics.median raises StatisticsError on no data.
format_projected_scores_noguard(ts) ==
    IF ts = << >> THEN Result(0, "", << >>, "StatisticsError")
    ELSE
    LET m2 == median2(scores_of(ts))
        sorted == sorted_desc(ts)
    IN  Result(m2, "lines",
               [ i \in 1..Len(sorted) |->
                   Line(sorted[i], IF 2 * sorted[i][2] >= m2 THEN PassGlyph
                                   ELSE FailGlyph) ],
               "none")

format_projected_scores(ts) ==
    IF ts = << >> THEN Result(0, NoMatchups, << >>, "none")
    ELSE
    LET m2 == median2(scores_of(ts))
        sorted == sorted_desc(ts)
    IN  Result(m2, "lines",
               [ i \in 1..Len(sorted) |->
                   Line(sorted[i], IF 2 * sorted[i][2] >= m2 THEN PassGlyph
                                   ELSE FailGlyph) ],
               "none")

NoResult == Result(0, "", << >>, "not-run")

NoMsg == [ kind |-> "none" ]

NoLeague == [ week |-> 0, box |-> << >> ]

---------------------------------------------------------------------------
(* SpecFmt: a formatter applied to one input *)

MainIdle ==
    /\ pc = "idle"
    /\ TEST_MODE = FALSE
    /\ now_et = << "none", 0 >>
    /\ league = NoLeague
    /\ load_failed = FALSE
    /\ formatted = FALSE
    /\ msg = NoMsg
    /\ post_kind = "none"
    /\ attempt = 0
    /\ sleeps = << >>
    /\ calls = << >>

InitFmt ==
    /\ team_scores \in { Entries(s) : s \in ScoreLists }
    /\ fmt_fn = "none"
    /\ fmt_out = NoResult
    /\ MainIdle

FormatCurrent ==
    /\ fmt_fn = "none"
    /\ pc = "idle"
    /\ fmt_fn' = "current"
    /\ fmt_out' = format_current_scores(team_scores)
    /\ UNCHANGED << team_scores, mainVars >>

FormatProjected ==
    /\ fmt_fn = "none"
    /\ pc = "idle"
    /\ fmt_fn' = "projected"
    /\ fmt_out' = format_projected_scores(team_scores)
    /\ UNCHANGED << team_scores, mainVars >>

NextFmt == FormatCurrent \/ FormatProjected

SpecFmt == InitFmt /\ [][NextFmt]_vars


---------------------------------------------------------------------------
(* Spec: one invocation of main *)

Weekdays == { "Sun", "Mon" }

Times == Weekdays \X (0..MaxMinute)

\* The points of one side of a box score: none yet, or some.
Pts == { 0, 1 }

\* One league.box_scores entry ("x or 0.0" turns a missing value into 0).
BoxScores ==
    [ home_score : Pts, away_score : Pts,
      home_projected : Pts, away_projected : Pts ]

\* fetch_scores(league, projected) for a week that is set: the home and the
\* away side of every box score, in order.
fetch_scores(box, projected) ==
    [ i \in 1..(2 * Len(box)) |->
        LET b == box[(i + 1) \div 2]
            home == (i % 2 = 1)
        IN  << Name(i),
               IF projected
               THEN (IF home THEN b.home_projected ELSE b.away_projected)
               ELSE (IF home THEN b.home_score ELSE b.away_score) >> ]

Init ==
    /\ team_scores = << >>
    /\ fmt_fn = "none"
    /\ fmt_out = NoResult
    /\ pc = "start"
    /\ TEST_MODE \in BOOLEAN
    /\ now_et = << "none", 0 >>
    /\ league = NoLeague
    /\ load_failed = FALSE
    /\ formatted = FALSE
    /\ msg = NoMsg
    /\ post_kind = "none"
    /\ attempt = 0
    /\ sleeps = << >>
    /\ calls = << >>

\* main: now_et = datetime.now(EASTERN), used by the start-up print only.
Main_Start ==
    /\ pc = "start"
    /\ \E t \in Times : now_et' = t
    /\ pc' = "build"
    /\ UNCHANGED << fmtVars, TEST_MODE, league, load_failed, formatted, msg, post_kind,
                    attempt, sleeps, calls >>

\* A build_message that swallows the load failure and formats no data.
BuildMessage_LoadFails_Swallowed ==
    /\ pc = "build"
    /\ load_failed' = TRUE
    /\ formatted' = TRUE
    /\ msg' = [ kind |-> "scores", week |-> 0,
                current |-> format_current_scores(<< >>),
                projected |-> format_projected_scores(<< >>) ]
    /\ pc' = "built"
    /\ UNCHANGED << fmtVars, TEST_MODE, now_et, league, post_kind, attempt, sleeps, calls >>

\* build_message: League(...) or a fetch_scores call raises; the RuntimeError
\* raised from the handler reaches main's except clause.
BuildMessage_LoadFails ==
    /\ pc = "build"
    /\ load_failed' = TRUE
    /\ pc' = "except"
    /\ UNCHANGED << fmtVars, TEST_MODE, now_et, league, formatted, msg, post_kind,
                    attempt, sleeps, calls >>

\* build_message: no week is set (both fetch_scores calls return (week, [])).
BuildMessage_NoWeek ==
    /\ pc = "build"
    /\ msg' = [ kind |-> "no-week" ]
    /\ pc' = "built"
    /\ UNCHANGED << fmtVars, TEST_MODE, now_et, league, load_failed, formatted, post_kind,
                    attempt, sleeps, calls >>

\* build_message: a week is set; both formatters run on the fetched lists.
BuildMessage_Scores ==
    /\ pc = "build"
    /\ \E week \in 1..MaxWeek, box \in SeqsUpTo(BoxScores, MaxMatchups) :
           /\ league' = [ week |-> week, box |-> box ]
           /\ msg' = [ kind |-> "scores", week |-> week,
                       current |-> format_current_scores(fetch_scores(box, FALSE)),
                       projected |-> format_projected_scores(fetch_scores(box, TRUE)) ]
    /\ formatted' = TRUE
    /\ pc' = "built"
    /\ UNCHANGED << fmtVars, TEST_MODE, now_et, load_failed, post_kind,
                    attempt, sleeps, calls >>

\* A main that posts the message in test mode too.
Main_AfterBuild_AlwaysPost ==
    /\ pc = "built"
    /\ pc' = "posting"
    /\ post_kind' = "score"
    /\ attempt' = 0
    /\ sleeps' = << >>
    /\ UNCHANGED << fmtVars, TEST_MODE, now_et, league, load_failed, formatted, msg, calls >>

\* main: "if TEST_MODE: print(...) else: post_to_groupme(msg)".
Main_AfterBuild ==
    /\ pc = "built"
    /\ IF TEST_MODE
       THEN /\ pc' = "done"
            /\ UNCHANGED << post_kind, attempt, sleeps >>
       ELSE /\ pc' = "posting"
            /\ post_kind' = "score"
            /\ attempt' = 0
            /\ sleeps' = << >>
    /\ UNCHANGED << fmtVars, TEST_MODE, now_et, league, load_failed, formatted, msg, calls >>

\* A main whose handler notifies the webhook in test mode too.
Main_Except_AlwaysNotify ==
    /\ pc = "except"
    /\ pc' = "posting"
    /\ post_kind' = "error"
    /\ attempt' = 0
    /\ sleeps' = << >>
    /\ UNCHANGED << fmtVars, TEST_MODE, now_et, league, load_failed, formatted, msg, calls >>

\* main's "except Exception": log, then "if not TEST_MODE" post the error text.
Main_Except ==
    /\ pc = "except"
    /\ IF TEST_MODE
       THEN /\ pc' = "done"
            /\ UNCHANGED << post_kind, attempt, sleeps >>
       ELSE /\ pc' = "posting"
            /\ post_kind' = "error"
            /\ attempt' = 0
            /\ sleeps' = << >>
    /\ UNCHANGED << fmtVars, TEST_MODE, now_et, league, load_failed, formatted, msg, calls >>

Call(kind, n, slept, result) ==
    [ kind |-> kind, attempts |-> n, sleeps |-> slept, result |-> result ]

\* post_to_groupme: the POST answers 2xx, raise_for_status passes, return.
\* Both call sites of main finish after a successful post.
Post_Success ==
    /\ pc = "posting"
    /\ calls' = Append(calls, Call(post_kind, attempt + 1, sleeps, "returned"))
    /\ pc' = "done"
    /\ post_kind' = "none"
    /\ attempt' = 0
    /\ sleeps' = << >>
    /\ UNCHANGED << fmtVars, TEST_MODE, now_et, league, load_failed, formatted, msg >>

\* A retry test that gives up one attempt early.
GivesUp_Early(a) == a >= retries

\* "if attempt > retries: raise"
GivesUp(a) == a > retries

\* "time.sleep(backoff * attempt)", in tenths of a second
SleepFor(a) == backoff10 * a

\* An error post whose failure is not caught.
AfterErrorPostRaises_Uncaught == "crashed"

\* main's inner "except Exception as e2": print, and main returns.
AfterErrorPostRaises == "done"

\* post_to_groupme: the POST raises or answers non-2xx.  Either the
\* exception is re-raised to the caller, or the loop sleeps and goes round.
Post_Failure ==
    /\ pc = "posting"
    /\ IF GivesUp(attempt + 1)
       THEN /\ calls' = Append(calls, Call(post_kind, attempt + 1, sleeps, "raised"))
            /\ pc' = IF post_kind = "score" THEN "except" ELSE AfterErrorPostRaises
            /\ post_kind' = "none"
            /\ attempt' = 0
            /\ sleeps' = << >>
       ELSE /\ attempt' = attempt + 1
            /\ sleeps' = Append(sleeps, SleepFor(attempt + 1))
            /\ UNCHANGED << pc, post_kind, calls >>
    /\ UNCHANGED << fmtVars, TEST_MODE, now_et, league, load_failed, formatted, msg >>

Next ==
    \/ Main_Start
    \/ BuildMessage_LoadFails
    \/ BuildMessage_NoWeek
    \/ BuildMessage_Scores
    \/ Main_AfterBuild
    \/ Main_Except
    \/ Post_Success
    \/ Post_Failure

Spec == Init /\ [][Next]_vars

\* main is a single thread and every POST ends within its 10 s timeout, so a
\* step that can be taken is taken.
FairSpec == Init /\ [][Next]_vars /\ WF_vars(Next)

---------------------------------------------------------------------------
(* Properties of the formatters, checked under SpecFmt *)

InScores == scores_of(team_scores)

PositiveScores == SelectSeq(InScores, IsPositive)

ZeroEntries == Cardinality({ i \in 1..Len(team_scores) : team_scores[i][2] = 0 })

\* At least half of the entries, or at least 6, are exactly zero.
HalfOrSixZeros ==
    ZeroEntries >= ZeroHeavyMin \/ 2 * ZeroEntries >= Len(team_scores)

\* More than half of the entries, or at least 6, are exactly zero.
MajorityOrSixZeros ==
    ZeroEntries >= ZeroHeavyMin \/ 2 * ZeroEntries > Len(team_scores)

Below(vals, x) == Cardinality({ i \in 1..Len(vals) : vals[i] < x })

AtMost(vals, x) == Cardinality({ i \in 1..Len(vals) : vals[i] <= x })

\* The k-th smallest value by rank: fewer than k values lie below it and at
\* least k values are at most it.
KthSmallest(vals, k) ==
    CHOOSE x \in Range(vals) : Below(vals, x) < k /\ k <= AtMost(vals, x)

\* The statistical median of a non-empty list, doubled.
StatMedian2(vals) ==
    LET n == Len(vals)
    IN  IF n % 2 = 1 THEN 2 * KthSmallest(vals, (n + 1) \div 2)
        ELSE KthSmallest(vals, n \div 2) + KthSmallest(vals, (n \div 2) + 1)

Ran(fn) == fmt_fn = fn /\ team_scores # << >>

\* The output the zero-heavy policy gives: median 0, pass iff score > 0.
ZeroHeavyOutcome ==
    /\ fmt_out.median2 = 0
    /\ \A i \in 1..Len(fmt_out.lines) :
           (fmt_out.lines[i].mark = PassGlyph) <=> (fmt_out.lines[i].score > 0)

\* C1 (as amended): on a non-empty input format_projected_scores returns the
\* statistical median of all scores; format_current_scores, on a non-empty
\* input it does not treat as zero-heavy, returns the statistical median of
\* the strictly positive scores only.
C1_MedianOfUsable ==
    /\ Ran("projected") => fmt_out.median2 = StatMedian2(InScores)
    /\ (Ran("current") /\ ~HalfOrSixZeros) =>
           fmt_out.median2 = StatMedian2(PositiveScores)

\* C1 as claimed, on the inputs that are zero-heavy under no reading: the
\* median returned is the statistical median of all the input scores.
C1_Original ==
    /\ Ran("projected") => fmt_out.median2 = StatMedian2(InScores)
    /\ (Ran("current") /\ ~HalfOrSixZeros) =>
           fmt_out.median2 = StatMedian2(InScores)

C1_Witness ==
    /\ Ran("current")
    /\ ~HalfOrSixZeros
    /\ ZeroEntries > 0
    /\ fmt_out.median2 = StatMedian2(PositiveScores)
    /\ fmt_out.median2 # StatMedian2(InScores)

\* C2 (as amended): format_current_scores gives the zero-heavy output
\* (median 0, marks by score > 0) iff at least half of the entries, or at
\* least 6 of them, are exactly zero.
C2_ZeroHeavyIffHalfOrSix ==
    Ran("current") => (ZeroHeavyOutcome <=> HalfOrSixZeros)

\* C2 as claimed: zero-heavy iff more than half, or at least 6, are zero.
C2_Original ==
    Ran("current") => (ZeroHeavyOutcome <=> MajorityOrSixZeros)

C2_Witness ==
    /\ Ran("current")
    /\ 2 * ZeroEntries = Len(team_scores)
    /\ ZeroEntries < ZeroHeavyMin
    /\ ZeroHeavyOutcome

\* C3: every rendered entry is marked pass iff its score is >= the median
\* returned, except where format_current_scores applies the zero-heavy
\* policy, there iff its score is > 0; every other entry is marked fail.
C3_MarkIffAtLeastMedian ==
    /\ fmt_fn # "none" =>
           \A i \in 1..Len(fmt_out.lines) :
               fmt_out.lines[i].mark \in { PassGlyph, FailGlyph }
    /\ (Ran("projected") \/ (Ran("current") /\ ~HalfOrSixZeros)) =>
           \A i \in 1..Len(fmt_out.lines) :
               (fmt_out.lines[i].mark = PassGlyph)
                   <=> (2 * fmt_out.lines[i].score >= fmt_out.median2)
    /\ (Ran("current") /\ HalfOrSixZeros) =>
           \A i \in 1..Len(fmt_out.lines) :
               (fmt_out.lines[i].mark = PassGlyph)
                   <=> (fmt_out.lines[i].score > 0)

C3_Witness ==
    /\ Ran("current")
    /\ ~HalfOrSixZeros
    /\ ZeroEntries > 0
    /\ \E i, j \in 1..Len(fmt_out.lines) :
           /\ fmt_out.lines[i].mark = PassGlyph
           /\ 2 * fmt_out.lines[i].score = fmt_out.median2
           /\ fmt_out.lines[j].mark = FailGlyph
           /\ fmt_out.lines[j].score > 0

LineEntry(l) == << l.name, l.score >>

Occurrences(s, e) == Cardinality({ i \in 1..Len(s) : s[i] = e })

LineOccurrences(ls, e) == Cardinality({ i \in 1..Len(ls) : LineEntry(ls[i]) = e })

\* C8: the rendered lines are the input entries, none dropped or repeated,
\* in descending order of score.
C8_SortedPermutation ==
    (Ran("current") \/ Ran("projected")) =>
        /\ Len(fmt_out.lines) = Len(team_scores)
        /\ \A e \in Range(team_scores) :
               LineOccurrences(fmt_out.lines, e) = Occurrences(team_scores, e)
        /\ \A i \in 1..(Len(fmt_out.lines) - 1) :
               fmt_out.lines[i].score >= fmt_out.lines[i + 1].score

C8_Witness ==
    /\ Ran("projected")
    /\ Len(team_scores) >= 3
    /\ \E i, j \in 1..Len(team_scores) :
           i < j /\ team_scores[i][2] < team_scores[j][2]
    /\ \E i, j \in 1..Len(team_scores) :
           i < j /\ team_scores[i] = team_scores[j]
    /\ \A i \in 1..(Len(fmt_out.lines) - 1) :
           fmt_out.lines[i].score >= fmt_out.lines[i + 1].score

\* C9: on the empty list both formatters return median 0 and the text
\* "No matchups found.", with no line rendered and nothing raised.
C9_EmptySentinel ==
    (fmt_fn # "none" /\ team_scores = << >>) =>
        fmt_out = Result(0, NoMatchups, << >>, "none")

C9_Witness ==
    /\ fmt_fn = "projected"
    /\ team_scores = << >>
    /\ fmt_out.text = NoMatchups
    /\ fmt_out.median2 = 0

---------------------------------------------------------------------------
(* The window gate of the specification; bot.py has no such gate *)

\* The posting schedule: (weekday, minute of the day) slots.
Schedule == { << "Sun", 1 >> }

\* The symmetric tolerance around a slot, in minutes.
Tolerance == 1

InWindow(t) ==
    \E s \in Schedule :
        /\ s[1] = t[1]
        /\ t[2] - s[2] <= Tolerance
        /\ s[2] - t[2] <= Tolerance

---------------------------------------------------------------------------
(* Properties of main and post_to_groupme, checked under Spec and FairSpec *)

RECURSIVE SumAttempts(_)
SumAttempts(cs) ==
    IF cs = << >> THEN 0 ELSE Head(cs).attempts + SumAttempts(Tail(cs))

\* POST attempts made so far in this invocation.
TotalAttempts == SumAttempts(calls) + attempt

DeliveredCalls == { i \in 1..Len(calls) : calls[i].result = "returned" }

Attempted(kind) ==
    \/ pc = "posting" /\ post_kind = kind
    \/ \E i \in 1..Len(calls) : calls[i].kind = kind

LinearSleeps(n) == [ k \in 1..n |-> backoff10 * k ]

\* C4 (as amended): main makes a POST only if TEST_MODE is off, and with
\* TEST_MODE off every finished invocation has made a POST, whatever the
\* time read at its start: main has no window gate.
C4_PostsIffNotTestMode ==
    /\ TotalAttempts > 0 => ~TEST_MODE
    /\ (pc = "done" /\ ~TEST_MODE) => TotalAttempts > 0

\* C4 as claimed: a POST is made only within the tolerance of a scheduled
\* slot or with the test-mode override on.
C4_Original ==
    TotalAttempts > 0 => (InWindow(now_et) \/ TEST_MODE)

C4_Witness ==
    /\ pc = "done"
    /\ ~TEST_MODE
    /\ now_et[1] \in Weekdays
    /\ ~InWindow(now_et)
    /\ \E i \in DeliveredCalls : calls[i].kind = "score"

C5_Inv ==
    /\ pc = "posting" => /\ attempt <= 2
                         /\ sleeps = LinearSleeps(attempt)
    /\ pc # "posting" => attempt = 0
    /\ \A i \in 1..Len(calls) :
           /\ calls[i].attempts \in 1..3
           /\ calls[i].sleeps = LinearSleeps(calls[i].attempts - 1)
           /\ calls[i].result = "raised" => calls[i].attempts = 3
           /\ calls[i].result \in { "returned", "raised" }

\* C5: a call of post_to_groupme makes at most 3 POST attempts and ends: it
\* returns at the first attempt that succeeds, it raises after the 3rd failed
\* attempt, the sleep after the k-th failed attempt is backoff * k, and no
\* sleep follows the last attempt.
C5_BoundedRetry ==
    /\ []C5_Inv
    /\ (pc = "posting") ~> (pc # "posting")

C5_Witness ==
    /\ \E i \in 1..Len(calls) : calls[i] = Call("score", 3, << 15, 30 >>, "raised")
    /\ \E i \in 1..Len(calls) : calls[i] = Call("error", 2, << 15 >>, "returned")

\* C6: main never lets an exception escape and always returns.
C6_MainReturns ==
    /\ [](pc # "crashed")
    /\ <>(pc = "done")

C6_Witness ==
    /\ pc = "done"
    /\ Len(calls) = 2
    /\ calls[1].result = "raised"
    /\ calls[2] = Call("error", 3, << 15, 30 >>, "raised")

\* C7: when loading the league data fails and TEST_MODE is off, the
\* formatters are not run, no score message is built or posted, and main
\* ends after one error post with the bounded retry.
C7_LoadFailureNotifies ==
    (load_failed /\ ~TEST_MODE) =>
        /\ ~formatted
        /\ league = NoLeague
        /\ msg.kind = "none"
        /\ ~Attempted("score")
        /\ pc \in { "except", "posting", "done" }
        /\ pc = "posting" => post_kind = "error" /\ calls = << >>
        /\ pc = "done" =>
               /\ Len(calls) = 1
               /\ calls[1].kind = "error"
               /\ calls[1].attempts \in 1..3
               /\ calls[1].result = "raised" => calls[1].attempts = 3

C7_Witness ==
    /\ load_failed
    /\ ~TEST_MODE
    /\ pc = "done"
    /\ calls = << Call("error", 2, << 15 >>, "returned") >>

\* C10: at most one POST of an invocation succeeds; the error notification
\* is attempted only after build_message failed or the score post failed 3
\* times; at most 6 POST attempts are made; none with TEST_MODE on.
C10_AtMostOneDelivered ==
    /\ Cardinality(DeliveredCalls) <= 1
    /\ Attempted("error") =>
           \/ load_failed
           \/ /\ Len(calls) >= 1
              /\ calls[1].kind = "score"
              /\ calls[1].result = "raised"
              /\ calls[1].attempts = 3
    /\ TotalAttempts <= 6
    /\ TEST_MODE => TotalAttempts = 0

C10_Witness ==
    /\ pc = "done"
    /\ TotalAttempts = 6
    /\ Cardinality(DeliveredCalls) = 1
    /\ calls[2].kind = "error"

=============================================================================
